---- MODULE Spec2Model ----
(***************************************************************************)
(* Model of the three PDF extraction engines of rtghan/pdf_extract:        *)
(*   src/engines/python/markitdown_engine.py                               *)
(*   src/engines/python/mineru_engine.py                                   *)
(*   src/engines/python/tesseract_engine.py                                *)
(* One process invocation handles one request read from standard input,    *)
(* writes a JSON response to standard output and exits.  The model follows *)
(* the control flow of each main(), including Python's try / except /      *)
(* finally semantics: sys.exit raises SystemExit, which `except Exception` *)
(* does not catch, and an exception raised inside a finally block replaces *)
(* the exception in flight.                                                *)
(*                                                                         *)
(* Texts are sequences of one-character strings; path strings are          *)
(* sequences of code points so that their lexicographic order is computed. *)
(***************************************************************************)
EXTENDS Integers, Sequences, FiniteSets, TLC

\* ---------------------------------------------------------------- bounds
MaxFiles == 3
MaxPages == 3

\* ------------------------------------------------------ program constants
DefaultTimeout == 240

MdSep == <<"\n", "\n", "-", "-", "-", "\n", "\n">>
\* Mutant: pages joined by a single line break.
PageSepSingle == <<"\n">>
PageSep == <<"\n", "\n">>
CliFailedMsg == "mineru CLI failed"

\* ------------------------------------------------------------- exceptions
NoExc == [kind |-> "none", code |-> 0, msg |-> ""]
SystemExit(n) == [kind |-> "SystemExit", code |-> n, msg |-> ""]
Exc(m) == [kind |-> "Exception", code |-> 0, msg |-> m]

\* -------------------------------------------------------------- requests
\* The payload on standard input.  payload: how far decoding gets.
\* cli_args and timeout_seconds are the optional fields of the JSON object.
StrArg(v) == [t |-> "str", v |-> v]
IntArg(v) == [t |-> "int", v |-> v]
CliAbsent == [tag |-> "absent", items |-> <<>>]
CliNonList == [tag |-> "nonlist", items |-> <<>>]
CliList(items) == [tag |-> "list", items |-> items]
CliArgsChoices ==
  { CliAbsent, CliNonList,
    CliList(<<StrArg("--method"), StrArg("ocr")>>),
    CliList(<<StrArg("--pages"), IntArg("1")>>) }
TimeoutAbsent == [tag |-> "absent", v |-> 0]
TimeoutNull == [tag |-> "null", v |-> 0]
TimeoutNum(n) == [tag |-> "num", v |-> n]
TimeoutChoices == { TimeoutAbsent, TimeoutNull, TimeoutNum(2) }
PayloadKinds == {"empty", "notjson", "nopdf", "badb64", "ok"}
Requests ==
  [payload : PayloadKinds, cli_args : CliArgsChoices, timeout_seconds : TimeoutChoices]

\* str(e) of the exception raised while decoding, per engine.
JsonDecodeError(kind) ==
  CASE kind = "empty" -> "Expecting value"
    [] kind = "notjson" -> "Expecting value"
    [] kind = "nopdf" -> "'pdf'"
    [] OTHER -> "Incorrect padding"
MineruDecodeError(kind) ==
  CASE kind = "empty" -> "No input payload provided on stdin"
    [] kind = "notjson" -> "Expecting value"
    [] kind = "nopdf" -> "Payload must include base64 'pdf' field"
    [] OTHER -> "Incorrect padding"

\* -------------------------------------------------------------- responses
SuccessResponse(e, out) == [success |-> TRUE, engine |-> e, output |-> out]
\* Mutant: the failure response also carries an (empty) output field.
FailureResponseWithOutput(e, m) ==
  [success |-> FALSE, engine |-> e, error |-> m, output |-> <<>>]
FailureResponse(e, m) == [success |-> FALSE, engine |-> e, error |-> m]
MineruSuccessResponse(out, files, so, se) ==
  [success |-> TRUE, engine |-> "mineru", output |-> out, files |-> files,
   mineru_stdout |-> so, mineru_stderr |-> se]
\* Mutant: the exit status reported is the process's own, 1, not the child's.
MineruCliFailedResponseRcOne(rc, so, se) ==
  [success |-> FALSE, engine |-> "mineru", error |-> CliFailedMsg,
   returncode |-> 1, stdout |-> so, stderr |-> se]
MineruCliFailedResponse(rc, so, se) ==
  [success |-> FALSE, engine |-> "mineru", error |-> CliFailedMsg,
   returncode |-> rc, stdout |-> so, stderr |-> se]

\* ------------------------------------------------------------------ join
\* Python's sep.join(parts).
RECURSIVE StrJoin(_, _)
StrJoin(sep, parts) ==
  IF parts = <<>> THEN <<>>
  ELSE IF Len(parts) = 1 THEN parts[1]
  ELSE parts[1] \o sep \o StrJoin(sep, Tail(parts))


\* ----------------------------------------------------------------- paths
\* A Path is a sequence of components relative to out_dir, each component a
\* sequence of code points ('.' = 46, '/' = 47, 'a' = 97, ...).
PathAMd == << <<97, 46, 109, 100>> >>
PathBMd == << <<98, 46, 109, 100>> >>
PathCMd == << <<99, 46, 109, 100>> >>
PathASubBMd == << <<97>>, <<98, 46, 109, 100>> >>
PathATxt == << <<97, 46, 116, 120, 116>> >>
OutFileUniverse == {PathAMd, PathBMd, PathCMd, PathASubBMd, PathATxt}

\* str(p): the components joined by '/'.
RECURSIVE PathStr(_)
PathStr(p) ==
  IF Len(p) = 1 THEN p[1] ELSE p[1] \o <<47>> \o PathStr(Tail(p))

\* The bytes the external tool wrote to each file; "0xFF" is a byte that is
\* not valid UTF-8.
FileBytes(p) ==
  CASE p = PathAMd -> <<"A">>
    [] p = PathBMd -> <<"B">>
    [] p = PathCMd -> <<"C">>
    [] p = PathASubBMd -> <<"D", "0xFF">>
    [] OTHER -> <<"X">>

\* Path.read_text(encoding="utf-8") raises UnicodeDecodeError on invalid bytes.
Utf8Valid(bytes) == \A i \in 1..Len(bytes) : bytes[i] # "0xFF"
\* bytes.decode("utf-8", errors="replace")
DecodeReplace(bytes) ==
  [i \in 1..Len(bytes) |-> IF bytes[i] = "0xFF" THEN "U+FFFD" ELSE bytes[i]]
ReadMarkdown(p) ==
  IF Utf8Valid(FileBytes(p)) THEN FileBytes(p) ELSE DecodeReplace(FileBytes(p))

\* Python's str < str: code point by code point, a proper prefix is smaller.
RECURSIVE StrLess(_, _)
StrLess(a, b) ==
  IF b = <<>> THEN FALSE
  ELSE IF a = <<>> THEN TRUE
  ELSE IF a[1] # b[1] THEN a[1] < b[1]
  ELSE StrLess(Tail(a), Tail(b))

\* rglob("*.md"): the entries whose name ends in ".md", in any order.
IsMd(p) ==
  LET name == p[Len(p)]
  IN  Len(name) >= 3 /\ SubSeq(name, Len(name) - 2, Len(name)) = <<46, 109, 100>>
Rglob(files) ==
  LET md == {p \in files : IsMd(p)}
  IN  {s \in [1..Cardinality(md) -> md] :
         \A i, j \in 1..Cardinality(md) : i # j => s[i] # s[j]}

\* list.sort(key=lambda p: str(p)): stable, ascending by path string.
RECURSIVE InsertByStr(_, _)
InsertByStr(sorted, p) ==
  IF sorted = <<>> THEN <<p>>
  ELSE IF StrLess(PathStr(p), PathStr(sorted[1])) THEN <<p>> \o sorted
  ELSE <<sorted[1]>> \o InsertByStr(Tail(sorted), p)
RECURSIVE SortByStr(_)
SortByStr(s) ==
  IF s = <<>> THEN <<>>
  ELSE InsertByStr(SortByStr(SubSeq(s, 1, Len(s) - 1)), s[Len(s)])

\* Mutant: the sort is left out, the discovery order is returned.
find_markdown_files_unsorted(md_list) == md_list
find_markdown_files(md_list) ==
  IF md_list = <<>> THEN <<>> ELSE SortByStr(md_list)

\* ------------------------------------------------------------ mineru CLI
FixedCmd ==
  <<StrArg("mineru"), StrArg("-p"), StrArg("input.pdf"), StrArg("-o"), StrArg("out")>>
\* isinstance(data.get("cli_args"), list) -> cmd.extend(data["cli_args"])
BuildCmd(req) ==
  IF req.cli_args.tag = "list" THEN FixedCmd \o req.cli_args.items ELSE FixedCmd
\* Mutant: subprocess.run called without a timeout.
TimeoutOfIgnored(req) == [limited |-> FALSE, secs |-> 0]
\* timeout=data.get("timeout_seconds", 240); None means no timeout.
TimeoutOf(req) ==
  CASE req.timeout_seconds.tag = "absent" -> [limited |-> TRUE, secs |-> DefaultTimeout]
    [] req.timeout_seconds.tag = "null" -> [limited |-> FALSE, secs |-> 0]
    [] OTHER -> [limited |-> TRUE, secs |-> req.timeout_seconds.v]
\* subprocess.run raises TypeError when an argument is not str/bytes/PathLike.
CmdAllStrings(c) == \A i \in 1..Len(c) : c[i].t = "str"

\* The external tool: how long it runs, whether it ever exits, its exit status
\* and the files it leaves in out_dir.
RunTimes == {1, 239, 240, 241}
ReturnCodes == {0, 1, 2}
ChildLogs == { [out |-> "", err |-> ""], [out |-> "progress", err |-> "warning"] }
FileSets == {fs \in SUBSET OutFileUniverse : Cardinality(fs) <= MaxFiles}
NoChild ==
  [state |-> "none", runTime |-> 0, hangs |-> FALSE, rc |-> 0, files |-> {},
   out |-> "", err |-> ""]

\* ------------------------------------------------------------- tesseract
\* What recognition does on each page image: text, nothing, or a fault.
PageOutcomes == {"text", "blank", "fault"}
Digit(i) == <<"1", "2", "3", "4", "5", "6", "7", "8", "9">>[i]
\* pytesseract.image_to_string(img) for page i.
PageText(kind, i) == IF kind = "text" THEN <<"P", Digit(i)>> ELSE <<>>
Documents ==
  UNION {[1..n -> PageOutcomes] : n \in 0..MaxPages}

\* ------------------------------------------------------------- markitdown
\* result.text_content may be None, "" or text.
ConvertResults ==
  { [kind |-> "none", text |-> <<>>], [kind |-> "text", text |-> <<>>],
    [kind |-> "text", text |-> <<"T">>] }
NoResult == [kind |-> "unset", text |-> <<>>]
\* result.text_content if result.text_content else ""
TextOrEmpty(r) == IF r.kind = "text" /\ r.text # <<>> THEN r.text ELSE <<>>

\* The interpreter's exit status: SystemExit(n) gives n, an exception that
\* leaves main() gives 1 (and a traceback on stderr).
ExitStatusOf(p) ==
  CASE p.kind = "SystemExit" -> p.code
    [] p.kind = "Exception" -> 1
    [] OTHER -> 0

\* ------------------------------------------------------------------ state
VARIABLES engine, request, pc, temp_path, scratch, pending, result, child, cmd,
          md_files, files_read, combined_md_parts, images, extracted, stdout,
          exitStatus, unhandled, trace

vars == <<engine, request, pc, temp_path, scratch, pending, result, child, cmd,
          md_files, files_read, combined_md_parts, images, extracted, stdout,
          exitStatus, unhandled, trace>>

inputVars == <<engine, request>>
mineruVars == <<child, cmd, md_files, files_read, combined_md_parts>>
tesseractVars == <<images, extracted>>
exitVars == <<exitStatus, unhandled>>

Init ==
  /\ engine \in {"markitdown", "mineru", "tesseract"}
  /\ request \in Requests
  /\ pc = "start"
  /\ temp_path = FALSE
  /\ scratch = "absent"
  /\ pending = NoExc
  /\ result = NoResult
  /\ child = NoChild
  /\ cmd = <<>>
  /\ md_files = <<>>
  /\ files_read = <<>>
  /\ combined_md_parts = <<>>
  /\ images = <<>>
  /\ extracted = <<>>
  /\ stdout = <<>>
  /\ exitStatus = -1
  /\ unhandled = FALSE
  /\ trace = <<>>

\* ======================================================= markitdown_engine
\* payload = sys.stdin.read(); data = json.loads(payload);
\* pdf_bytes = base64.b64decode(data["pdf"])
MdDecode ==
  /\ engine = "markitdown" /\ pc = "start"
  /\ IF request.payload = "ok"
     THEN pc' = "create" /\ pending' = pending
     ELSE pc' = "except" /\ pending' = Exc(JsonDecodeError(request.payload))
  /\ UNCHANGED <<inputVars, temp_path, scratch, result, mineruVars, tesseractVars,
                 stdout, exitVars, trace>>

\* with tempfile.NamedTemporaryFile(suffix=".pdf", delete=False) as tmp:
MdCreateTemp ==
  /\ engine = "markitdown" /\ pc = "create"
  /\ \E ok \in BOOLEAN :
       IF ok
       THEN /\ scratch' = "present"
            /\ trace' = Append(trace, "create")
            /\ pc' = "write"
            /\ pending' = pending
       ELSE /\ pending' = Exc("cannot create temporary file")
            /\ pc' = "except"
            /\ UNCHANGED <<scratch, trace>>
  /\ UNCHANGED <<inputVars, temp_path, result, mineruVars, tesseractVars, stdout,
                 exitVars>>

\* tmp.write(pdf_bytes); temp_path = tmp.name; leaving the with block closes tmp.
\* A fault in write leaves temp_path = None; a fault in close comes after the
\* assignment.
MdWriteTemp ==
  /\ engine = "markitdown" /\ pc = "write"
  /\ \E outcome \in {"ok", "write_fault", "close_fault"} :
       /\ temp_path' = (outcome # "write_fault")
       /\ pending' = IF outcome = "ok" THEN pending ELSE Exc("No space left on device")
       /\ pc' = IF outcome = "ok" THEN "convert" ELSE "except"
  /\ UNCHANGED <<inputVars, scratch, result, mineruVars, tesseractVars, stdout,
                 exitVars, trace>>

\* md = MarkItDown(); result = md.convert(temp_path)
MdConvert ==
  /\ engine = "markitdown" /\ pc = "convert"
  /\ trace' = Append(trace, "engine")
  /\ \/ \E r \in ConvertResults :
          /\ result' = r
          /\ pc' = "emit"
          /\ pending' = pending
     \/ /\ pending' = Exc("conversion failed")
        /\ pc' = "except"
        /\ result' = result
  /\ UNCHANGED <<inputVars, temp_path, scratch, mineruVars, tesseractVars, stdout,
                 exitVars>>

\* output = {...}; print(json.dumps(output)); sys.exit(0)
MdEmitSuccess ==
  /\ engine = "markitdown" /\ pc = "emit"
  /\ stdout' = Append(stdout, SuccessResponse("markitdown", TextOrEmpty(result)))
  /\ trace' = Append(trace, "emit")
  /\ pending' = SystemExit(0)
  /\ pc' = "finally"
  /\ UNCHANGED <<inputVars, temp_path, scratch, result, mineruVars, tesseractVars,
                 exitVars>>

\* except Exception as e: print(json.dumps({... "error": str(e)})); sys.exit(1)
MdExcept ==
  /\ engine = "markitdown" /\ pc = "except"
  /\ stdout' = Append(stdout, FailureResponse("markitdown", pending.msg))
  /\ trace' = Append(trace, "emit")
  /\ pending' = SystemExit(1)
  /\ pc' = "finally"
  /\ UNCHANGED <<inputVars, temp_path, scratch, result, mineruVars, tesseractVars,
                 exitVars>>

\* finally: if temp_path and os.path.exists(temp_path): os.unlink(temp_path)
\* An OSError from os.unlink replaces the SystemExit in flight and leaves main().
MdFinally ==
  /\ engine = "markitdown" /\ pc = "finally"
  /\ IF temp_path /\ scratch = "present"
     THEN \E ok \in BOOLEAN :
            /\ scratch' = IF ok THEN "removed" ELSE "present"
            /\ trace' = Append(trace, IF ok THEN "cleanup" ELSE "cleanup_failed")
            /\ pending' = IF ok THEN pending ELSE Exc("unlink failed")
     ELSE UNCHANGED <<scratch, trace, pending>>
  /\ exitStatus' = ExitStatusOf(pending')
  /\ unhandled' = (pending'.kind = "Exception")
  /\ pc' = "done"
  /\ UNCHANGED <<inputVars, temp_path, result, mineruVars, tesseractVars, stdout>>

\* ======================================================== tesseract_engine
TsDecode ==
  /\ engine = "tesseract" /\ pc = "start"
  /\ IF request.payload = "ok"
     THEN pc' = "create" /\ pending' = pending
     ELSE pc' = "except" /\ pending' = Exc(JsonDecodeError(request.payload))
  /\ UNCHANGED <<inputVars, temp_path, scratch, result, mineruVars, tesseractVars,
                 stdout, exitVars, trace>>

TsCreateTemp ==
  /\ engine = "tesseract" /\ pc = "create"
  /\ \E ok \in BOOLEAN :
       IF ok
       THEN /\ scratch' = "present"
            /\ trace' = Append(trace, "create")
            /\ pc' = "write"
            /\ pending' = pending
       ELSE /\ pending' = Exc("cannot create temporary file")
            /\ pc' = "except"
            /\ UNCHANGED <<scratch, trace>>
  /\ UNCHANGED <<inputVars, temp_path, result, mineruVars, tesseractVars, stdout,
                 exitVars>>

TsWriteTemp ==
  /\ engine = "tesseract" /\ pc = "write"
  /\ \E outcome \in {"ok", "write_fault", "close_fault"} :
       /\ temp_path' = (outcome # "write_fault")
       /\ pending' = IF outcome = "ok" THEN pending ELSE Exc("No space left on device")
       /\ pc' = IF outcome = "ok" THEN "rasterize" ELSE "except"
  /\ UNCHANGED <<inputVars, scratch, result, mineruVars, tesseractVars, stdout,
                 exitVars, trace>>

\* images = convert_from_path(temp_path); extracted = []
TsRasterize ==
  /\ engine = "tesseract" /\ pc = "rasterize"
  /\ \/ \E doc \in Documents :
          /\ images' = doc
          /\ extracted' = <<>>
          /\ trace' = trace \o <<"engine", "rasterized">>
          /\ pc' = "recognize"
          /\ pending' = pending
     \/ /\ pending' = Exc("Unable to get page count")
        /\ trace' = Append(trace, "engine")
        /\ pc' = "except"
        /\ UNCHANGED <<images, extracted>>
  /\ UNCHANGED <<inputVars, temp_path, scratch, result, mineruVars, stdout, exitVars>>

\* for img in images: text = pytesseract.image_to_string(img); extracted.append(text)
TsRecognize ==
  /\ engine = "tesseract" /\ pc = "recognize"
  /\ Len(extracted) < Len(images)
  /\ LET i == Len(extracted) + 1
     IN  IF images[i] = "fault"
         THEN /\ pending' = Exc("tesseract failed")
              /\ pc' = "except"
              /\ extracted' = extracted
         ELSE /\ extracted' = Append(extracted, PageText(images[i], i))
              /\ UNCHANGED <<pending, pc>>
  /\ UNCHANGED <<inputVars, temp_path, scratch, result, mineruVars, images, stdout,
                 exitVars, trace>>

\* output_text = "\n\n".join(extracted); print(json.dumps(output)); sys.exit(0)
TsEmitSuccess ==
  /\ engine = "tesseract" /\ pc = "recognize"
  /\ Len(extracted) = Len(images)
  /\ stdout' = Append(stdout, SuccessResponse("tesseract", StrJoin(PageSep, extracted)))
  /\ trace' = Append(trace, "emit")
  /\ pending' = SystemExit(0)
  /\ pc' = "finally"
  /\ UNCHANGED <<inputVars, temp_path, scratch, result, mineruVars, tesseractVars,
                 exitVars>>

TsExcept ==
  /\ engine = "tesseract" /\ pc = "except"
  /\ stdout' = Append(stdout, FailureResponse("tesseract", pending.msg))
  /\ trace' = Append(trace, "emit")
  /\ pending' = SystemExit(1)
  /\ pc' = "finally"
  /\ UNCHANGED <<inputVars, temp_path, scratch, result, mineruVars, tesseractVars,
                 exitVars>>

TsFinally ==
  /\ engine = "tesseract" /\ pc = "finally"
  /\ IF temp_path /\ scratch = "present"
     THEN \E ok \in BOOLEAN :
            /\ scratch' = IF ok THEN "removed" ELSE "present"
            /\ trace' = Append(trace, IF ok THEN "cleanup" ELSE "cleanup_failed")
            /\ pending' = IF ok THEN pending ELSE Exc("unlink failed")
     ELSE UNCHANGED <<scratch, trace, pending>>
  /\ exitStatus' = ExitStatusOf(pending')
  /\ unhandled' = (pending'.kind = "Exception")
  /\ pc' = "done"
  /\ UNCHANGED <<inputVars, temp_path, result, mineruVars, tesseractVars, stdout>>

\* =========================================================== mineru_engine
\* payload = sys.stdin.read(); if not payload: raise ValueError(...)
\* data = json.loads(payload); if "pdf" not in data: raise ValueError(...)
\* pdf_bytes = base64.b64decode(data["pdf"])
MuDecode ==
  /\ engine = "mineru" /\ pc = "start"
  /\ IF request.payload = "ok"
     THEN pc' = "create" /\ pending' = pending
     ELSE pc' = "except" /\ pending' = Exc(MineruDecodeError(request.payload))
  /\ UNCHANGED <<inputVars, temp_path, scratch, result, mineruVars, tesseractVars,
                 stdout, exitVars, trace>>

\* tmp_dir = Path(tempfile.mkdtemp(prefix="mineru_run_")), before the inner try.
MuMkdtemp ==
  /\ engine = "mineru" /\ pc = "create"
  /\ \E ok \in BOOLEAN :
       IF ok
       THEN /\ scratch' = "present"
            /\ temp_path' = TRUE
            /\ trace' = Append(trace, "create")
            /\ pc' = "write"
            /\ pending' = pending
       ELSE /\ pending' = Exc("cannot create temporary directory")
            /\ pc' = "except"
            /\ UNCHANGED <<scratch, temp_path, trace>>
  /\ UNCHANGED <<inputVars, result, mineruVars, tesseractVars, stdout, exitVars>>

\* out_dir.mkdir(...); with open(input_pdf, "wb") as f: f.write(pdf_bytes)
MuWriteInput ==
  /\ engine = "mineru" /\ pc = "write"
  /\ \E ok \in BOOLEAN :
       /\ pending' = IF ok THEN pending ELSE Exc("No space left on device")
       /\ pc' = IF ok THEN "cmd" ELSE "finally"
  /\ UNCHANGED <<inputVars, temp_path, scratch, result, mineruVars, tesseractVars,
                 stdout, exitVars, trace>>

\* cmd = ["mineru", "-p", str(input_pdf), "-o", str(out_dir)]
\* if isinstance(data.get("cli_args"), list): cmd.extend(data["cli_args"])
MuBuildCmd ==
  /\ engine = "mineru" /\ pc = "cmd"
  /\ cmd' = BuildCmd(request)
  /\ pc' = "run"
  /\ UNCHANGED <<inputVars, temp_path, scratch, pending, result, child, md_files,
                 files_read, combined_md_parts, tesseractVars, stdout, exitVars, trace>>

\* proc = subprocess.run(cmd, ..., timeout=...): starting the child.
MuRun ==
  /\ engine = "mineru" /\ pc = "run"
  /\ trace' = Append(trace, "engine")
  /\ IF ~CmdAllStrings(cmd)
     THEN /\ pending' = Exc("expected str, bytes or os.PathLike object, not int")
          /\ pc' = "finally"
          /\ child' = child
     ELSE \/ /\ pending' = Exc("No such file or directory: 'mineru'")
             /\ pc' = "finally"
             /\ child' = child
          \/ \E rt \in RunTimes, h \in BOOLEAN :
               /\ child' = [child EXCEPT !.state = "running", !.runTime = rt, !.hangs = h]
               /\ pc' = "wait"
               /\ pending' = pending
  /\ UNCHANGED <<inputVars, temp_path, scratch, result, cmd, md_files, files_read,
                 combined_md_parts, tesseractVars, stdout, exitVars>>

\* subprocess.run returns: the child exited before the timeout.
MuChildExits ==
  /\ engine = "mineru" /\ pc = "wait"
  /\ ~child.hangs
  /\ TimeoutOf(request).limited => child.runTime <= TimeoutOf(request).secs
  /\ \E rc \in ReturnCodes, fs \in FileSets, log \in ChildLogs :
       child' = [child EXCEPT !.state = "exited", !.rc = rc, !.files = fs,
                              !.out = log.out, !.err = log.err]
  /\ pc' = "check"
  /\ UNCHANGED <<inputVars, temp_path, scratch, pending, result, cmd, md_files,
                 files_read, combined_md_parts, tesseractVars, stdout, exitVars, trace>>

\* subprocess.run on timeout: process.kill(); process.wait(); raise TimeoutExpired
MuTimeout ==
  /\ engine = "mineru" /\ pc = "wait"
  /\ TimeoutOf(request).limited
  /\ child.hangs \/ child.runTime >= TimeoutOf(request).secs
  /\ child' = [child EXCEPT !.state = "killed"]
  /\ pending' = Exc("Command timed out")
  /\ pc' = "finally"
  /\ UNCHANGED <<inputVars, temp_path, scratch, result, cmd, md_files, files_read,
                 combined_md_parts, tesseractVars, stdout, exitVars, trace>>

\* if rc != 0: print(json.dumps(out_json)); sys.exit(1)
MuCliFailed ==
  /\ engine = "mineru" /\ pc = "check"
  /\ child.rc # 0
  /\ stdout' = Append(stdout, MineruCliFailedResponse(child.rc, child.out, child.err))
  /\ trace' = Append(trace, "emit")
  /\ pending' = SystemExit(1)
  /\ pc' = "finally"
  /\ UNCHANGED <<inputVars, temp_path, scratch, result, mineruVars, tesseractVars,
                 exitVars>>

\* md_files = find_markdown_files(out_dir); files_read = []; combined_md_parts = []
MuScan ==
  /\ engine = "mineru" /\ pc = "check"
  /\ child.rc = 0
  /\ \E found \in Rglob(child.files) : md_files' = find_markdown_files(found)
  /\ files_read' = <<>>
  /\ combined_md_parts' = <<>>
  /\ trace' = Append(trace, "scan")
  /\ pc' = "read"
  /\ UNCHANGED <<inputVars, temp_path, scratch, pending, result, child, cmd,
                 tesseractVars, stdout, exitVars>>

\* for p in md_files: text = p.read_text(...) (fallback: decode with replacement);
\* files_read.append({...}); combined_md_parts.append(text)
MuReadFile ==
  /\ engine = "mineru" /\ pc = "read"
  /\ Len(combined_md_parts) < Len(md_files)
  /\ LET p == md_files[Len(combined_md_parts) + 1]
     IN  \/ /\ combined_md_parts' = Append(combined_md_parts, ReadMarkdown(p))
            /\ files_read' = Append(files_read,
                                    [path |-> PathStr(p), size |-> Len(FileBytes(p))])
            /\ UNCHANGED <<pending, pc>>
         \/ /\ pending' = Exc("Input/output error")
            /\ pc' = "finally"
            /\ UNCHANGED <<combined_md_parts, files_read>>
  /\ UNCHANGED <<inputVars, temp_path, scratch, result, child, cmd, md_files,
                 tesseractVars, stdout, exitVars, trace>>

\* combined_md = "\n\n---\n\n".join(combined_md_parts); print(json.dumps(result));
\* sys.exit(0)
MuEmitSuccess ==
  /\ engine = "mineru" /\ pc = "read"
  /\ Len(combined_md_parts) = Len(md_files)
  /\ stdout' = Append(stdout,
                      MineruSuccessResponse(StrJoin(MdSep, combined_md_parts),
                                            files_read, child.out, child.err))
  /\ trace' = Append(trace, "emit")
  /\ pending' = SystemExit(0)
  /\ pc' = "finally"
  /\ UNCHANGED <<inputVars, temp_path, scratch, result, mineruVars, tesseractVars,
                 exitVars>>

\* finally: try: shutil.rmtree(tmp_dir) except Exception: pass
\* Then SystemExit leaves main(); an Exception goes to the outer handler.
MuFinally ==
  /\ engine = "mineru" /\ pc = "finally"
  /\ \E ok \in BOOLEAN :
       /\ scratch' = IF ok THEN "removed" ELSE "present"
       /\ trace' = Append(trace, IF ok THEN "cleanup" ELSE "cleanup_failed")
  /\ IF pending.kind = "Exception"
     THEN pc' = "except" /\ UNCHANGED exitVars
     ELSE /\ pc' = "done"
          /\ exitStatus' = ExitStatusOf(pending)
          /\ unhandled' = FALSE
  /\ UNCHANGED <<inputVars, temp_path, pending, result, mineruVars, tesseractVars,
                 stdout>>

\* except Exception as e: print(json.dumps({... "error": str(e)})); sys.exit(1)
MuExcept ==
  /\ engine = "mineru" /\ pc = "except"
  /\ stdout' = Append(stdout, FailureResponse("mineru", pending.msg))
  /\ trace' = Append(trace, "emit")
  /\ pending' = SystemExit(1)
  /\ exitStatus' = ExitStatusOf(SystemExit(1))
  /\ unhandled' = FALSE
  /\ pc' = "done"
  /\ UNCHANGED <<inputVars, temp_path, scratch, result, mineruVars, tesseractVars>>

\* ====================================================================== spec
Next ==
  \/ MdDecode \/ MdCreateTemp \/ MdWriteTemp \/ MdConvert \/ MdEmitSuccess
  \/ MdExcept \/ MdFinally
  \/ TsDecode \/ TsCreateTemp \/ TsWriteTemp \/ TsRasterize \/ TsRecognize
  \/ TsEmitSuccess \/ TsExcept \/ TsFinally
  \/ MuDecode \/ MuMkdtemp \/ MuWriteInput \/ MuBuildCmd \/ MuRun \/ MuChildExits
  \/ MuTimeout \/ MuCliFailed \/ MuScan \/ MuReadFile \/ MuEmitSuccess
  \/ MuFinally \/ MuExcept

Spec == Init /\ [][Next]_vars

Done == pc = "done"

\* ==================================================================== claims
Emitted == Len(stdout) >= 1
Response == stdout[1]
CleanupFailed == \E i \in 1..Len(trace) : trace[i] = "cleanup_failed"
Created == \E i \in 1..Len(trace) : trace[i] = "create"

\* sep.join(parts) built from the left, for stating the expected outputs.
RECURSIVE JoinFromLeft(_, _, _)
JoinFromLeft(sep, parts, n) ==
  IF n = 0 THEN <<>>
  ELSE IF n = 1 THEN parts[1]
  ELSE JoinFromLeft(sep, parts, n - 1) \o sep \o parts[n]

\* a < b as strings: they agree on a prefix of length k, after which a ends
\* first or has the smaller code point.
LexBefore(a, b) ==
  \E k \in 0..Len(a) :
    /\ k <= Len(b)
    /\ \A i \in 1..k : a[i] = b[i]
    /\ \/ k = Len(a) /\ k < Len(b)
       \/ k < Len(a) /\ k < Len(b) /\ a[k + 1] < b[k + 1]

\* C1: once the process has terminated, its exit status is 0 or 1, and it is 0
\* exactly when the response written to standard output has success = true.
C1_ExitStatusIffSuccess ==
  Done => /\ exitStatus \in {0, 1}
          /\ Emitted
          /\ (exitStatus = 0) <=> Response.success

\* C2: at most one response is ever written, exactly one has been written when
\* the process has terminated, and it has the success shape (output, no error)
\* or the failure shape (error, no output), with engine the variant's name.
C2_ExactlyOneWellShapedResponse ==
  /\ Len(stdout) <= 1
  /\ Done => Len(stdout) = 1
  /\ \A i \in 1..Len(stdout) :
       LET r == stdout[i]
       IN  /\ {"success", "engine"} \subseteq DOMAIN r
           /\ r.engine = engine
           /\ IF r.success
              THEN "output" \in DOMAIN r /\ "error" \notin DOMAIN r
              ELSE "error" \in DOMAIN r /\ "output" \notin DOMAIN r

\* C2 witness: the process has terminated, even through an unhandled cleanup
\* fault, having written its one response.
C2_Witness == Done /\ unhandled /\ Len(stdout) = 1 /\ Response.success

\* C3: after termination on a path whose cleanup itself did not fail, the
\* scratch file or directory created for the request no longer exists.
C3_NoScratchRemains ==
  (Done /\ ~CleanupFailed) => scratch # "present"

\* C4: a failed scratch deletion is swallowed: the process does not terminate
\* through an unhandled fault and its exit status is the one the response implies.
C4_CleanupFailureSwallowed ==
  (Done /\ CleanupFailed) =>
    /\ ~unhandled
    /\ Emitted
    /\ exitStatus = (IF Response.success THEN 0 ELSE 1)

\* C5: on a path that created a scratch resource and called the engine the events
\* are nested: creation, engine call, cleanup, response; no response is written
\* before cleanup.
C5_ResponseAfterCleanup ==
  Created =>
    \A i \in 1..Len(trace) :
      /\ trace[i] = "engine" => \E j \in 1..(i - 1) : trace[j] = "create"
      /\ trace[i] \in {"cleanup", "cleanup_failed"} =>
           \A j \in 1..Len(trace) : trace[j] = "engine" => j < i
      /\ (trace[i] = "emit" /\ \E k \in 1..Len(trace) : trace[k] = "engine") =>
           \E j \in 1..(i - 1) : trace[j] \in {"cleanup", "cleanup_failed"}

\* C6: mineru, child exited non-zero: the output directory is never scanned, and
\* the response is a failure with returncode the observed status and the captured
\* stdout and stderr, and no output, whatever files the child produced.
C6_NonZeroExitIsFailure ==
  (engine = "mineru" /\ child.state = "exited" /\ child.rc # 0) =>
    /\ \A i \in 1..Len(trace) : trace[i] # "scan"
    /\ Done => Emitted
    /\ Emitted =>
         /\ Response.success = FALSE
         /\ {"returncode", "stdout", "stderr"} \subseteq DOMAIN Response
         /\ Response.returncode = child.rc
         /\ Response.stdout = child.out
         /\ Response.stderr = child.err
         /\ "output" \notin DOMAIN Response

\* C6 witness: the child exited with status 2 having produced a.md.
C6_Witness ==
  /\ Done /\ engine = "mineru" /\ child.state = "exited" /\ child.rc = 2
  /\ PathAMd \in child.files
  /\ Response.returncode = 2 /\ Response.stdout = "progress"

\* C7: mineru, the child started and does not exit within timeout_seconds (240
\* when the field is absent): it is never taken to have exited, and the response is
\* a failure whose error is not "mineru CLI failed", without returncode, written
\* when the child is no longer running.
C7_TimeoutIsDistinctFailure ==
  LET limit == IF request.timeout_seconds.tag = "absent" THEN 240
               ELSE request.timeout_seconds.v
  IN  ( /\ engine = "mineru"
        /\ child.state # "none"
        /\ request.timeout_seconds.tag # "null"
        /\ child.hangs \/ child.runTime > limit ) =>
        /\ child.state # "exited"
        /\ Done => Emitted
        /\ Emitted =>
             /\ child.state = "killed"
             /\ Response.success = FALSE
             /\ Response.error # "mineru CLI failed"
             /\ "returncode" \notin DOMAIN Response

\* C7 witness: no timeout_seconds, a child that would run 241 seconds, killed.
C7_Witness ==
  /\ Done /\ engine = "mineru" /\ request.timeout_seconds.tag = "absent"
  /\ child.runTime = 241 /\ ~child.hangs /\ child.state = "killed"
  /\ Response.success = FALSE

C9_MalformedCliArgsIgnored ==
  LET wellFormed ==
        /\ request.cli_args.tag = "list"
        /\ \A i \in 1..Len(request.cli_args.items) : request.cli_args.items[i].t = "str"
  IN  (engine = "mineru" /\ cmd # <<>>) =>
        /\ cmd = IF wellFormed THEN FixedCmd \o request.cli_args.items ELSE FixedCmd
        /\ \A i \in 1..Len(cmd) : cmd[i].t = "str"

\* C10: tesseract: a success response comes only after rasterization and the
\* recognition of every page succeeded, and its output is the page texts in page
\* order with "\n\n" between consecutive pages ("" for no page); when
\* rasterization or a page fails the response is a failure without output.
C10_PagesJoinedOrFailure ==
  (engine = "tesseract" /\ Emitted) =>
    LET n == Len(images)
        rasterized == \E i \in 1..Len(trace) : trace[i] = "rasterized"
        faulty == \E i \in 1..n : images[i] = "fault"
    IN  /\ Response.success =>
             /\ rasterized /\ ~faulty
             /\ Response.output =
                  JoinFromLeft(<<"\n", "\n">>, [i \in 1..n |-> PageText(images[i], i)], n)
             /\ n = 0 => Response.output = <<>>
        /\ (~rasterized \/ faulty) =>
             /\ Response.success = FALSE
             /\ DOMAIN Response = {"success", "engine", "error"}

\* C10 witness: three pages recognized to P1, P2, P3.
C10_Witness ==
  /\ Done /\ engine = "tesseract" /\ images = <<"text", "text", "text">>
  /\ Emitted /\ Response.success
  /\ Response.output = <<"P", "1", "\n", "\n", "P", "2", "\n", "\n", "P", "3">>
====
